---- MODULE Spec2Model ----
(***************************************************************************)
(* Model of the AIS cleanup job (cleanup_vessels.py): boundary loading,    *)
(* point-in-territory classification, the per-vessel retention decision    *)
(* and the batched, window-scoped deletion against the position store.     *)
(*                                                                         *)
(* Time is counted in whole hours.  Coordinates are counted in tenths of   *)
(* a degree, so the 0.2 degree proximity threshold is 2.  Polygons are     *)
(* axis-aligned rectangles, lines are single straight segments.            *)
(***************************************************************************)
EXTENDS Integers, Sequences, FiniteSets, TLC

VARIABLES
    pc,                 \* position of the running function
    outcome,            \* how main ended ("running" while it has not)
    clock,              \* datetime.now(timezone.utc), in hours
    supabase,           \* main's client: "unset", "client" or "None"
    file_state,         \* boundary file: "unread", "ok", "missing", "malformed"
    file_features,      \* data['features'] of the boundary file
    store,              \* rows of table vessel_positions
    store0,             \* rows of the table when the run started
    boundaries,         \* result of load_territorial_waters
    positions,          \* response.data of the analysis fetch
    analysis_threshold, \* threshold_time of analyze_vessel_movements
    delete_threshold,   \* threshold_time of delete_vessels
    vessels_to_keep,
    vessels_to_delete,
    mmsi_list,          \* list(mmsi_set) in delete_vessels
    i,                  \* loop index of the batch loop (0-based)
    calls,              \* delete requests sent to the store, in order
    point,              \* argument of a direct get_vessel_country call
    country,            \* its result
    run,                \* 1 in the first run of main, 2 in a run after it
    previous            \* what the run before this one computed

vars == <<pc, outcome, clock, supabase, file_state, file_features,
          store, store0, boundaries, positions, analysis_threshold,
          delete_threshold, vessels_to_keep, vessels_to_delete, mmsi_list,
          i, calls, point, country, run, previous>>

---------------------------------------------------------------------------
(* Bounds of the model *)

MaxStore == 3        \* rows in the store when a run starts
MaxTick == 1         \* hours the clock may advance during a run
MaxTime == 3         \* row timestamps are the hours 0 .. MaxTime
MaxBoundaries == 2   \* length of the boundary store of a direct classify call
MaxDeleteSet == 250  \* size of the set handed to delete_vessels directly

(* Program constants *)

hours == 24               \* main: hours=24
batch_size == 100
PROXIMITY_THRESHOLD == 2  \* 0.2 degrees, in tenths of a degree

None == "None"            \* Python's None as a classification result
Unset == 0 - 1            \* a threshold that was not computed yet

StartClock == hours + 1
\* row timestamps: hour 0 is older than the window of a run that starts at
\* StartClock, hour 1 is on its lower bound, the later hours are inside it
Times == 0 .. MaxTime

---------------------------------------------------------------------------
(* The boundary file *)

Feature(type, x1, y1, x2, y2, t1, c, n) ==
    [type |-> type, x1 |-> x1, y1 |-> y1, x2 |-> x2, y2 |-> y2,
     TERRITORY1 |-> t1, Country |-> c, NAME |-> n]

FI_area == Feature("Polygon", 0, 0, 10, 10, "FI", "", "")
SE_area == Feature("Polygon", 20, 0, 30, 10, "", "SE", "")
AX_area == Feature("MultiPolygon", 8, 0, 22, 10, "", "", "AX")
EE_line == Feature("LineString", 10, 0, 10, 10, "", "", "EE")
NN_line == Feature("MultiLineString", 0, 12, 30, 14, "", "", "")
Buoy    == Feature("Point", 5, 5, 5, 5, "FI", "", "")

SupportedTypes == {"Polygon", "MultiPolygon", "LineString", "MultiLineString"}

\* feature['properties'].get('TERRITORY1') or .get('Country') or .get('NAME')
\* or 'Unknown'; a missing or empty property is ""
FeatureCountry(f) ==
    IF f.TERRITORY1 # "" THEN f.TERRITORY1
    ELSE IF f.Country # "" THEN f.Country
    ELSE IF f.NAME # "" THEN f.NAME
    ELSE "Unknown"

Boundary(f) ==
    [geometry |-> [x1 |-> f.x1, y1 |-> f.y1, x2 |-> f.x2, y2 |-> f.y2],
     country |-> FeatureCountry(f),
     type |-> f.type]

RECURSIVE LoadFeatures(_)
LoadFeatures(fs) ==
    IF fs = << >> THEN << >>
    ELSE IF Head(fs).type \in SupportedTypes
         THEN <<Boundary(Head(fs))>> \o LoadFeatures(Tail(fs))
         ELSE LoadFeatures(Tail(fs))

---------------------------------------------------------------------------
(* Point-in-territory classification *)

\* Polygon.contains(point): the interior, without the ring
Contains(g, lon, lat) ==
    g.x1 < lon /\ lon < g.x2 /\ g.y1 < lat /\ lat < g.y2

Sq(x) == x * x

\* LineString.distance(point) < d, for the segment (x1,y1)-(x2,y2), in
\* integer arithmetic on the squared distances
DistanceBelow(g, lon, lat, d) ==
    LET dx == g.x2 - g.x1
        dy == g.y2 - g.y1
        len2 == Sq(dx) + Sq(dy)
        dot == (lon - g.x1) * dx + (lat - g.y1) * dy
        cross == (lon - g.x1) * dy - (lat - g.y1) * dx
    IN  IF len2 = 0 \/ dot <= 0
        THEN Sq(lon - g.x1) + Sq(lat - g.y1) < Sq(d)
        ELSE IF dot >= len2
        THEN Sq(lon - g.x2) + Sq(lat - g.y2) < Sq(d)
        ELSE Sq(cross) < Sq(d) * len2

BoundaryMatches(b, lon, lat) ==
    IF b.type \in {"Polygon", "MultiPolygon"}
    THEN Contains(b.geometry, lon, lat)
    ELSE IF b.type \in {"LineString", "MultiLineString"}
    THEN DistanceBelow(b.geometry, lon, lat, PROXIMITY_THRESHOLD)
    ELSE FALSE

\* a variant in which the last matching boundary wins
RECURSIVE ScanBoundariesLastMatch(_, _, _, _)
ScanBoundariesLastMatch(lon, lat, bs, k) ==
    IF k > Len(bs) THEN None
    ELSE LET rest == ScanBoundariesLastMatch(lon, lat, bs, k + 1)
         IN  IF rest # None THEN rest
             ELSE IF BoundaryMatches(bs[k], lon, lat) THEN bs[k].country
             ELSE None

RECURSIVE ScanBoundaries(_, _, _, _)
ScanBoundaries(lon, lat, bs, k) ==
    IF k > Len(bs) THEN None
    ELSE IF BoundaryMatches(bs[k], lon, lat) THEN bs[k].country
    ELSE ScanBoundaries(lon, lat, bs, k + 1)

get_vessel_country(lon, lat, bs) == ScanBoundaries(lon, lat, bs, 1)

\* Point(lon, lat) raises for a coordinate that is not a number (a NULL
\* longitude or latitude column)
PointRaises(pos) == pos.null

---------------------------------------------------------------------------
(* The retention decision of analyze_vessel_movements *)

\* "if country:" - None and the empty string are falsy
Truthy(c) == c # None /\ c # ""

\* vessels: the fetched positions grouped by mmsi
VesselIds(ps) == {r.mmsi : r \in ps}
VesselPositions(ps, m) == {r \in ps : r.mmsi = m}

countries_visited(ps, bs) ==
    {c \in {get_vessel_country(p.longitude, p.latitude, bs) : p \in ps} :
        Truthy(c)}

\* a variant that counts one named jurisdiction as a crossing
KeepsVesselOneCountry(ps, bs) ==
    IF Cardinality(ps) < 2 THEN TRUE
    ELSE Cardinality(countries_visited(ps, bs)) >= 1

KeepsVessel(ps, bs) ==
    IF Cardinality(ps) < 2 THEN TRUE
    ELSE Cardinality(countries_visited(ps, bs)) >= 2

\* the loop over vessels raises when it classifies a malformed position;
\* vessels with fewer than 2 positions are never classified
AnalysisRaises(ps) ==
    \E m \in VesselIds(ps) :
        /\ Cardinality(VesselPositions(ps, m)) >= 2
        /\ \E p \in VesselPositions(ps, m) : PointRaises(p)

KeepSet(ps, bs) ==
    {m \in VesselIds(ps) : KeepsVessel(VesselPositions(ps, m), bs)}

DeleteSet(ps, bs) ==
    {m \in VesselIds(ps) : ~KeepsVessel(VesselPositions(ps, m), bs)}

\* .gte('timestamp', threshold_str)
Gte(rows, threshold) == {r \in rows : r.timestamp >= threshold}

---------------------------------------------------------------------------
(* Initial states of a cleanup run *)

MMSIs == {230111000, 273450000}

Pos(lon, lat, null) == [longitude |-> lon, latitude |-> lat, null |-> null]

\* inside FI, inside SE, open sea, and a row whose coordinates are NULL
StoreLocs ==
    {Pos(5, 5, FALSE), Pos(25, 5, FALSE), Pos(40, 5, FALSE), Pos(0, 0, TRUE)}

Row(m, t, l) ==
    [mmsi |-> m, timestamp |-> t, longitude |-> l.longitude,
     latitude |-> l.latitude, null |-> l.null]

AllRows == {Row(m, t, l) : m \in MMSIs, t \in Times, l \in StoreLocs}

\* the collector writes one row per vessel and collection time
OneRowPerReport(rows) ==
    \A r1, r2 \in rows :
        (r1.mmsi = r2.mmsi /\ r1.timestamp = r2.timestamp) => r1 = r2

RECURSIVE RowSets(_)
RowSets(k) ==
    IF k = 0 THEN {{}}
    ELSE LET smaller == RowSets(k - 1)
         IN  smaller \cup
             {S \cup {r} : S \in smaller, r \in AllRows}

Stores == {S \in RowSets(MaxStore) : OneRowPerReport(S)}

RunFiles == {<<FI_area, Buoy, SE_area>>, <<Buoy>>}

NoPoint == Pos(0, 0, FALSE)

\* nothing ran before the first run
NoPrevious ==
    [keep |-> {}, delete |-> {}, analysis_threshold |-> Unset,
     boundaries |-> << >>, calls |-> 0]

Idle ==
    /\ outcome = "running"
    /\ boundaries = << >>
    /\ positions = {}
    /\ analysis_threshold = Unset
    /\ delete_threshold = Unset
    /\ vessels_to_keep = {}
    /\ mmsi_list = << >>
    /\ i = 0
    /\ calls = << >>
    /\ point = NoPoint
    /\ country = "?"
    /\ run = 1
    /\ previous = NoPrevious

Init ==
    /\ pc = "main"
    /\ clock = StartClock
    /\ supabase = "unset"
    /\ file_state = "unread"
    /\ file_features = << >>
    /\ store \in Stores
    /\ store0 = store
    /\ vessels_to_delete = {}
    /\ Idle

---------------------------------------------------------------------------
(* main *)

Exit(how) ==
    /\ pc' = "exit"
    /\ outcome' = how

\* supabase = get_supabase_client(); if not supabase: return
GetClient ==
    /\ pc = "main"
    /\ \/ supabase' = "client" /\ pc' = "load" /\ UNCHANGED outcome
       \/ supabase' = "None" /\ Exit("no_client")
    /\ UNCHANGED <<clock, file_state, file_features, store,
                   store0, boundaries, positions, analysis_threshold,
                   delete_threshold, vessels_to_keep, vessels_to_delete,
                   mmsi_list, i, calls, point, country>>
    /\ UNCHANGED <<run, previous>>

\* a variant without the "if not boundaries: return" of main
LoadTerritorialWatersUnchecked ==
    /\ pc = "load"
    /\ \/ file_state' = "missing" /\ file_features' = << >>
       \/ file_state' = "ok" /\ file_features' \in RunFiles
    /\ boundaries' = LoadFeatures(file_features')
    /\ pc' = "analyze"
    /\ UNCHANGED <<outcome, clock, supabase, store, store0, positions,
                   analysis_threshold, delete_threshold, vessels_to_keep,
                   vessels_to_delete, mmsi_list, i, calls, point, country>>
    /\ UNCHANGED <<run, previous>>

\* boundaries = load_territorial_waters(); if not boundaries: return
\* A missing file gives [], a file that does not parse raises out of main.
LoadTerritorialWaters ==
    /\ pc = "load"
    /\ \/ /\ file_state' = "missing"
          /\ file_features' = << >>
          /\ boundaries' = << >>
          /\ Exit("no_boundaries")
       \/ /\ file_state' = "malformed"
          /\ file_features' = << >>
          /\ boundaries' = << >>
          /\ Exit("raised_load")
       \/ /\ file_state' = "ok"
          /\ file_features' \in RunFiles
          /\ boundaries' = LoadFeatures(file_features')
          /\ IF boundaries' = << >>
             THEN Exit("no_boundaries")
             ELSE pc' = "analyze" /\ UNCHANGED outcome
    /\ UNCHANGED <<clock, supabase, store,
                   store0, positions, analysis_threshold, delete_threshold,
                   vessels_to_keep, vessels_to_delete, mmsi_list, i, calls,
                   point, country>>
    /\ UNCHANGED <<run, previous>>

\* analyze_vessel_movements when the select succeeds
AnalyzeVesselMovements ==
    /\ pc = "analyze"
    /\ analysis_threshold' = clock - hours
    /\ positions' = Gte(store, analysis_threshold')
    /\ IF AnalysisRaises(positions')
       THEN /\ Exit("raised_classify")
            /\ UNCHANGED <<vessels_to_keep, vessels_to_delete>>
       ELSE /\ vessels_to_keep' = KeepSet(positions', boundaries)
            /\ vessels_to_delete' = DeleteSet(positions', boundaries)
            /\ pc' = "decide"
            /\ UNCHANGED outcome
    /\ UNCHANGED <<clock, supabase, file_state, file_features, store,
                   store0, boundaries, delete_threshold, mmsi_list, i, calls,
                   point, country>>
    /\ UNCHANGED <<run, previous>>

\* analyze_vessel_movements when the select raises: it returns set(), and
\* the two-name unpacking in main raises ValueError
AnalyzeFetchFails ==
    /\ pc = "analyze"
    /\ analysis_threshold' = clock - hours
    /\ Exit("raised_unpack")
    /\ UNCHANGED <<clock, supabase, file_state, file_features, store,
                   store0, boundaries, positions, delete_threshold,
                   vessels_to_keep, vessels_to_delete, mmsi_list, i, calls,
                   point, country>>
    /\ UNCHANGED <<run, previous>>

\* if vessels_to_delete: delete_vessels(...) else: print; "Cleanup complete!"
Decide ==
    /\ pc = "decide"
    /\ IF vessels_to_delete # {}
       THEN pc' = "delete_vessels" /\ UNCHANGED outcome
       ELSE Exit("complete")
    /\ UNCHANGED <<clock, supabase, file_state, file_features, store,
                   store0, boundaries, positions, analysis_threshold,
                   delete_threshold, vessels_to_keep, vessels_to_delete,
                   mmsi_list, i, calls, point, country>>
    /\ UNCHANGED <<run, previous>>

\* print("Cleanup complete!") after delete_vessels returned
MainComplete ==
    /\ pc = "after_delete"
    /\ Exit("complete")
    /\ UNCHANGED <<clock, supabase, file_state, file_features, store,
                   store0, boundaries, positions, analysis_threshold,
                   delete_threshold, vessels_to_keep, vessels_to_delete,
                   mmsi_list, i, calls, point, country>>
    /\ UNCHANGED <<run, previous>>

\* the wall clock advances (it does not go back); only the time that has
\* passed when the analysis and when delete_vessels read it matters
Tick ==
    /\ pc \in {"analyze", "delete_vessels"}
    /\ clock < StartClock + MaxTick
    /\ clock' = clock + 1
    /\ UNCHANGED <<pc, outcome, supabase, file_state, file_features,
                   store, store0, boundaries, positions, analysis_threshold,
                   delete_threshold, vessels_to_keep, vessels_to_delete,
                   mmsi_list, i, calls, point, country>>
    /\ UNCHANGED <<run, previous>>

---------------------------------------------------------------------------
(* delete_vessels *)

\* list(mmsi_set): the iteration order of a set is not specified; the
\* ascending and the descending order stand for it
RECURSIVE Ascending(_)
Ascending(S) ==
    IF S = {} THEN << >>
    ELSE LET half == Cardinality(S) \div 2
             m == CHOOSE x \in S : Cardinality({y \in S : y < x}) = half
         IN  Ascending({y \in S : y < m}) \o <<m>>
                 \o Ascending({y \in S : y > m})

Reverse(s) == [k \in 1 .. Len(s) |-> s[Len(s) + 1 - k]]

ListsOf(S) == {Ascending(S), Reverse(Ascending(S))}

\* a variant of the slice that stops one element early
SliceShort(s, from, to) ==
    [k \in 1 .. ((IF to < Len(s) THEN to ELSE Len(s)) - from - 1) |->
        s[from + k]]

\* mmsi_list[i:i + batch_size], with the 0-based index i
Slice(s, from, to) ==
    [k \in 1 .. ((IF to < Len(s) THEN to ELSE Len(s)) - from) |-> s[from + k]]

Range(s) == {s[k] : k \in 1 .. Len(s)}

\* a variant with .gt() in place of .gte(): a row on the bound stays
DeleteRowsNewerOnly(rows, batch, threshold) ==
    rows \ {r \in rows : r.timestamp > threshold /\ r.mmsi \in Range(batch)}

\* a variant without the .gte() filter: the whole history of the batch
DeleteRowsAnyAge(rows, batch, threshold) ==
    rows \ {r \in rows : r.mmsi \in Range(batch)}

\* a variant without the .in_() filter: every vessel's rows in the window
DeleteRowsAnyVessel(rows, batch, threshold) ==
    rows \ Gte(rows, threshold)

\* .delete().in_('mmsi', batch).gte('timestamp', threshold_str)
DeleteRows(rows, batch, threshold) ==
    rows \ {r \in Gte(rows, threshold) : r.mmsi \in Range(batch)}

\* if not mmsi_set: print; return
DeleteVesselsEmpty ==
    /\ pc = "delete_vessels"
    /\ vessels_to_delete = {}
    /\ pc' = "after_delete"
    /\ UNCHANGED <<outcome, clock, supabase, file_state,
                   file_features, store, store0, boundaries, positions,
                   analysis_threshold, delete_threshold, vessels_to_keep,
                   vessels_to_delete, mmsi_list, i, calls, point, country>>
    /\ UNCHANGED <<run, previous>>

\* threshold_time = now - hours; mmsi_list = list(mmsi_set); enter the loop
DeleteVesselsStart ==
    /\ pc = "delete_vessels"
    /\ vessels_to_delete # {}
    /\ delete_threshold' = clock - hours
    /\ mmsi_list' \in ListsOf(vessels_to_delete)
    /\ i' = 0
    /\ pc' = "delete_loop"
    /\ UNCHANGED <<outcome, clock, supabase, file_state,
                   file_features, store, store0, boundaries, positions,
                   analysis_threshold, vessels_to_keep, vessels_to_delete,
                   calls, point, country>>
    /\ UNCHANGED <<run, previous>>

Call(batch, threshold, ok) ==
    [batch |-> batch, threshold |-> threshold, ok |-> ok]

\* one pass of the loop body whose execute() succeeds
DeleteBatch ==
    /\ pc = "delete_loop"
    /\ i < Len(mmsi_list)
    /\ LET batch == Slice(mmsi_list, i, i + batch_size)
       IN  /\ store' = DeleteRows(store, batch, delete_threshold)
           /\ calls' = Append(calls, Call(batch, delete_threshold, TRUE))
    /\ i' = i + batch_size
    /\ UNCHANGED <<pc, outcome, clock, supabase, file_state,
                   file_features, store0, boundaries, positions,
                   analysis_threshold, delete_threshold, vessels_to_keep,
                   vessels_to_delete, mmsi_list, point, country>>
    /\ UNCHANGED <<run, previous>>

\* a variant whose except clause prints and does not re-raise
DeleteBatchFailsSwallowed ==
    /\ pc = "delete_loop"
    /\ i < Len(mmsi_list)
    /\ LET batch == Slice(mmsi_list, i, i + batch_size)
       IN  /\ store' = store
           /\ calls' = Append(calls, Call(batch, delete_threshold, FALSE))
    /\ pc' = "after_delete"
    /\ UNCHANGED <<outcome, clock, supabase, file_state,
                   file_features, store0, boundaries, positions,
                   analysis_threshold, delete_threshold, vessels_to_keep,
                   vessels_to_delete, mmsi_list, i, point, country>>
    /\ UNCHANGED <<run, previous>>

\* one pass of the loop body whose execute() raises: except prints and
\* re-raises, main does not catch.  The store may or may not have applied
\* the request before the failure was reported.
DeleteBatchFails ==
    /\ pc = "delete_loop"
    /\ i < Len(mmsi_list)
    /\ LET batch == Slice(mmsi_list, i, i + batch_size)
       IN  /\ \/ store' = store
              \/ store' = DeleteRows(store, batch, delete_threshold)
           /\ calls' = Append(calls, Call(batch, delete_threshold, FALSE))
    /\ Exit("raised_delete")
    /\ UNCHANGED <<clock, supabase, file_state, file_features,
                   store0, boundaries, positions, analysis_threshold,
                   delete_threshold, vessels_to_keep, vessels_to_delete,
                   mmsi_list, i, point, country>>
    /\ UNCHANGED <<run, previous>>

\* range(0, len(mmsi_list), batch_size) is exhausted: print and return
DeleteVesselsReturn ==
    /\ pc = "delete_loop"
    /\ i >= Len(mmsi_list)
    /\ pc' = "after_delete"
    /\ UNCHANGED <<outcome, clock, supabase, file_state,
                   file_features, store, store0, boundaries, positions,
                   analysis_threshold, delete_threshold, vessels_to_keep,
                   vessels_to_delete, mmsi_list, i, calls, point, country>>
    /\ UNCHANGED <<run, previous>>

Next ==
    \/ GetClient
    \/ LoadTerritorialWaters
    \/ AnalyzeVesselMovements
    \/ AnalyzeFetchFails
    \/ Decide
    \/ DeleteVesselsStart
    \/ DeleteBatch
    \/ DeleteBatchFails
    \/ DeleteVesselsReturn
    \/ MainComplete
    \/ Tick

Spec == Init /\ [][Next]_vars

---------------------------------------------------------------------------
(* A run of main followed by a second run.  The script keeps nothing       *)
(* between runs: only the table and the clock carry over, nothing is       *)
(* inserted in between.                                                    *)

StartSecondRun ==
    /\ run = 1
    /\ pc = "exit"
    /\ outcome = "complete"
    /\ run' = 2
    /\ previous' =
          [keep |-> vessels_to_keep, delete |-> vessels_to_delete,
           analysis_threshold |-> analysis_threshold,
           boundaries |-> boundaries, calls |-> Len(calls)]
    /\ pc' = "main"
    /\ outcome' = "running"
    /\ supabase' = "unset"
    /\ file_state' = "unread"
    /\ file_features' = << >>
    /\ store0' = store
    /\ boundaries' = << >>
    /\ positions' = {}
    /\ analysis_threshold' = Unset
    /\ delete_threshold' = Unset
    /\ vessels_to_keep' = {}
    /\ vessels_to_delete' = {}
    /\ mmsi_list' = << >>
    /\ i' = 0
    /\ calls' = << >>
    /\ UNCHANGED <<clock, store, point, country>>

NextRerun ==
    \/ GetClient
    \/ LoadTerritorialWaters
    \/ AnalyzeVesselMovements
    \/ AnalyzeFetchFails
    \/ Decide
    \/ DeleteVesselsStart
    \/ DeleteBatch
    \/ DeleteBatchFails
    \/ DeleteVesselsReturn
    \/ MainComplete
    \/ Tick
    \/ StartSecondRun

SpecRerun == Init /\ [][NextRerun]_vars

---------------------------------------------------------------------------
(* delete_vessels called with a set of any size, and the return to main *)

BatchIds(n) == 1 .. n

\* every vessel of the set has two open-sea rows in the window and an
\* older row
BatchRows(n) ==
    {Row(m, t, Pos(40, 5, FALSE)) : m \in BatchIds(n), t \in {0, 2, 3}}

InitBatch ==
    /\ pc = "delete_vessels"
    /\ clock = StartClock
    /\ supabase = "client"
    /\ file_state = "ok"
    /\ file_features = <<FI_area, SE_area>>
    /\ \E n \in 0 .. MaxDeleteSet :
          /\ store = BatchRows(n)
          /\ vessels_to_delete = BatchIds(n)
    /\ store0 = store
    /\ outcome = "running"
    /\ boundaries = LoadFeatures(file_features)
    /\ analysis_threshold = clock - hours
    /\ positions = Gte(store, analysis_threshold)
    /\ delete_threshold = Unset
    /\ vessels_to_keep = {}
    /\ mmsi_list = << >>
    /\ i = 0
    /\ calls = << >>
    /\ point = NoPoint
    /\ country = "?"
    /\ run = 1
    /\ previous = NoPrevious

NextBatch ==
    \/ DeleteVesselsEmpty
    \/ DeleteVesselsStart
    \/ DeleteBatch
    \/ DeleteBatchFails
    \/ DeleteVesselsReturn
    \/ MainComplete

SpecBatch == InitBatch /\ [][NextBatch]_vars

---------------------------------------------------------------------------
(* get_vessel_country called on one point and one boundary store *)

FeaturePool == {FI_area, SE_area, AX_area, EE_line, NN_line, Buoy}

RECURSIVE FeatureSeqs(_)
FeatureSeqs(k) ==
    IF k = 0 THEN {<< >>}
    ELSE LET shorter == FeatureSeqs(k - 1)
         IN  shorter \cup
             {Append(fs, f) : fs \in shorter, f \in FeaturePool}

DistinctFeatures(fs) ==
    \A a, b \in 1 .. Len(fs) : fs[a] = fs[b] => a = b

ClassifyFiles == {fs \in FeatureSeqs(MaxBoundaries) : DistinctFeatures(fs)}

Points ==
    {Pos(x, y, FALSE) : x \in {5, 9, 10, 11, 12, 21, 25, 40},
                        y \in {5, 10, 11, 13}}

InitClassify ==
    /\ pc = "classify"
    /\ clock = StartClock
    /\ supabase = "client"
    /\ file_state = "ok"
    /\ file_features \in ClassifyFiles
    /\ boundaries = LoadFeatures(file_features)
    /\ point \in Points
    /\ country = "?"
    /\ run = 1
    /\ previous = NoPrevious
    /\ store = {}
    /\ store0 = {}
    /\ outcome = "running"
    /\ positions = {}
    /\ analysis_threshold = Unset
    /\ delete_threshold = Unset
    /\ vessels_to_keep = {}
    /\ vessels_to_delete = {}
    /\ mmsi_list = << >>
    /\ i = 0
    /\ calls = << >>

ClassifyPoint ==
    /\ pc = "classify"
    /\ country' = get_vessel_country(point.longitude, point.latitude,
                                     boundaries)
    /\ pc' = "classified"
    /\ UNCHANGED <<outcome, clock, supabase, file_state,
                   file_features, store, store0, boundaries, positions,
                   analysis_threshold, delete_threshold, vessels_to_keep,
                   vessels_to_delete, mmsi_list, i, calls, point>>
    /\ UNCHANGED <<run, previous>>

NextClassify == ClassifyPoint

SpecClassify == InitClassify /\ [][NextClassify]_vars

---------------------------------------------------------------------------
(* Variant B of the retention decision: nationality-aware, tiered windows. *)
(* Its script is not among the sources; it is written down here from the   *)
(* design document (section 4.4).                                          *)

FlaggedPrefix == 273
FlaggedJurisdiction == "RU"
FullWindow == 96
RecentWindow == 48

RU_area == Feature("Polygon", 32, 0, 38, 10, "RU", "", "")

\* the first three digits of the identifier's string form
RECURSIVE LeadingDigits(_)
LeadingDigits(n) == IF n < 1000 THEN n ELSE LeadingDigits(n \div 10)

\* the distinct codes, None included, of a vessel's rows in a window
jurisdictions_visited(rows, m, bs, threshold) ==
    {get_vessel_country(r.longitude, r.latitude, bs) :
        r \in {q \in Gte(rows, threshold) : q.mmsi = m}}

\* a variant that looks at the visited waters only
is_flagged_nationality_no_prefix(rows, m, bs, now) ==
    FlaggedJurisdiction \in jurisdictions_visited(rows, m, bs, now - FullWindow)

is_flagged_nationality(rows, m, bs, now) ==
    \/ LeadingDigits(m) = FlaggedPrefix
    \/ FlaggedJurisdiction
          \in jurisdictions_visited(rows, m, bs, now - FullWindow)

KeepsVesselB(rows, m, bs, now) ==
    IF is_flagged_nationality(rows, m, bs, now) THEN TRUE
    ELSE Cardinality(jurisdictions_visited(rows, m, bs, now - RecentWindow))
            >= 2

MMSIsB == {273450000, 992200000, 231000000}

\* older than the full window, in the full window only, in the recent window
TimesB == {0, 1, RecentWindow + 1, RecentWindow + 2}

StoreLocsB == {Pos(5, 5, FALSE), Pos(35, 5, FALSE), Pos(40, 5, FALSE)}

AllRowsB == {Row(m, t, l) : m \in MMSIsB, t \in TimesB, l \in StoreLocsB}

RECURSIVE RowSetsB(_)
RowSetsB(k) ==
    IF k = 0 THEN {{}}
    ELSE LET smaller == RowSetsB(k - 1)
         IN  smaller \cup
             {S \cup {r} : S \in smaller, r \in AllRowsB}

InitVariantB ==
    /\ pc = "analyze_b"
    /\ clock = FullWindow + 1
    /\ supabase = "client"
    /\ file_state = "ok"
    /\ file_features = <<FI_area, SE_area, RU_area>>
    /\ boundaries = LoadFeatures(file_features)
    /\ store \in {S \in RowSetsB(MaxStore) : OneRowPerReport(S)}
    /\ store0 = store
    /\ outcome = "running"
    /\ positions = {}
    /\ analysis_threshold = Unset
    /\ delete_threshold = Unset
    /\ vessels_to_keep = {}
    /\ vessels_to_delete = {}
    /\ mmsi_list = << >>
    /\ i = 0
    /\ calls = << >>
    /\ point = NoPoint
    /\ country = "?"
    /\ run = 1
    /\ previous = NoPrevious

AnalyzeVariantB ==
    /\ pc = "analyze_b"
    /\ analysis_threshold' = clock - FullWindow
    /\ positions' = Gte(store, analysis_threshold')
    /\ vessels_to_keep' =
          {m \in VesselIds(positions') :
              KeepsVesselB(positions', m, boundaries, clock)}
    /\ vessels_to_delete' =
          {m \in VesselIds(positions') :
              ~KeepsVesselB(positions', m, boundaries, clock)}
    /\ pc' = "decided_b"
    /\ UNCHANGED <<outcome, clock, supabase, file_state,
                   file_features, store, store0, boundaries,
                   delete_threshold, mmsi_list, i, calls, point, country>>
    /\ UNCHANGED <<run, previous>>

NextVariantB == AnalyzeVariantB

SpecVariantB == InitVariantB /\ [][NextVariantB]_vars

---------------------------------------------------------------------------
(* Properties of a cleanup run (specification Spec) *)

Analysed == pc \in {"decide", "delete_vessels", "delete_loop", "after_delete"}
               \/ outcome \in {"complete", "raised_delete"}

RecordCount(m) == Cardinality({r \in positions : r.mmsi = m})

NamedJurisdictions(m) ==
    {get_vessel_country(r.longitude, r.latitude, boundaries) :
        r \in {q \in positions : q.mmsi = m}} \ {None}

\* C1: once the analysis has returned, every vessel with a fetched record is
\* in exactly one of the two sets; it is in the Keep set iff it has fewer
\* than 2 fetched records or at least 2 distinct named jurisdictions, and in
\* the Delete set otherwise.
C1_VariantADecision ==
    Analysed =>
        /\ vessels_to_keep \cup vessels_to_delete = {r.mmsi : r \in positions}
        /\ \A m \in {r.mmsi : r \in positions} :
              /\ m \in vessels_to_keep <=>
                    (RecordCount(m) < 2
                        \/ Cardinality(NamedJurisdictions(m)) >= 2)
              /\ m \in vessels_to_delete <=>
                    (RecordCount(m) >= 2
                        /\ Cardinality(NamedJurisdictions(m)) < 2)

\* a vessel with records classified FI, FI and None is in the Delete set
C1_Witness ==
    /\ Analysed
    /\ \E m \in vessels_to_delete :
          /\ RecordCount(m) = 3
          /\ NamedJurisdictions(m) = {"FI"}
          /\ \E r \in positions :
                /\ r.mmsi = m
                /\ get_vessel_country(r.longitude, r.latitude, boundaries)
                      = None

\* C2: every row that left the store was sent in a delete call whose lower
\* bound is the one delete_vessels computed from the clock, and is not older
\* than that bound nor older than the lower bound of the analysis; rows
\* older than the bound are all still in the store.
C2_WindowScopedDeletion ==
    /\ store \subseteq store0
    /\ \A k \in 1 .. Len(calls) : calls[k].threshold = delete_threshold
    /\ delete_threshold # Unset => delete_threshold <= clock - hours
    /\ \A r \in store0 \ store :
          /\ delete_threshold # Unset
          /\ r.timestamp >= delete_threshold
          /\ r.timestamp >= analysis_threshold
    /\ \A r \in store0 :
          (delete_threshold # Unset /\ r.timestamp < delete_threshold)
              => r \in store

\* a vessel lost its rows of the window and kept an older row
C2_Witness ==
    /\ outcome = "complete"
    /\ \E r \in store0 \ store :
          \E q \in store : q.mmsi = r.mmsi /\ q.timestamp < delete_threshold

\* C3: a delete call was sent only in a run whose boundary load returned at
\* least one boundary and whose position fetch succeeded; a run that ends on
\* a missing or unparseable boundary file, an empty boundary list or a failed
\* fetch has sent no delete call and left the store as it was.
C3_NoDeleteAfterFailedRead ==
    /\ calls # << >> =>
          /\ supabase = "client"
          /\ file_state = "ok"
          /\ Len(boundaries) >= 1
          /\ analysis_threshold # Unset
          /\ outcome \in {"running", "complete", "raised_delete"}
    /\ outcome \in {"no_client", "no_boundaries", "raised_load",
                    "raised_unpack"}
          => (calls = << >> /\ store = store0)

\* a run whose fetch failed has ended, with rows of the window in the store
C3_Witness ==
    /\ outcome = "raised_unpack"
    /\ \E r1, r2 \in store :
          /\ r1 # r2
          /\ r1.mmsi = r2.mmsi
          /\ r1.timestamp >= analysis_threshold
          /\ r2.timestamp >= analysis_threshold

\* C4: every delete call carries the lower bound of the analysis fetch, and
\* after a run that completed no fetched row of a Delete vessel is left.
C4_DeleteUsesDecisionWindow ==
    /\ \A k \in 1 .. Len(calls) : calls[k].threshold = analysis_threshold
    /\ outcome = "complete" =>
          \A r \in positions : r.mmsi \in vessels_to_delete => r \notin store

\* C7: a record whose classification fails does not end the run.
C7_BadRecordDoesNotAbort ==
    outcome # "raised_classify"

\* C10: the Keep and Delete sets are disjoint, only rows of Delete vessels
\* leave the store, no row is added or changed, and every row of a Keep
\* vessel and of a vessel without a fetched row is still in the store.
C10_KeptVesselsUntouched ==
    /\ vessels_to_keep \cap vessels_to_delete = {}
    /\ store \subseteq store0
    /\ \A r \in store0 \ store : r.mmsi \in vessels_to_delete
    /\ \A r \in store0 :
          (r.mmsi \in vessels_to_keep
              \/ r.mmsi \notin {q.mmsi : q \in positions})
              => r \in store

\* a run deleted one vessel's rows while a Keep vessel has a row in the window
C10_Witness ==
    /\ outcome = "complete"
    /\ store # store0
    /\ \E r \in store :
          /\ r.mmsi \in vessels_to_keep
          /\ r.timestamp >= delete_threshold

---------------------------------------------------------------------------
(* Properties of delete_vessels (specification SpecBatch) *)

Occurrences(m) ==
    Cardinality({kj \in {<<k, j>> : k \in 1 .. Len(calls),
                                    j \in 1 .. batch_size} :
                    /\ kj[2] <= Len(calls[kj[1]].batch)
                    /\ calls[kj[1]].batch[kj[2]] = m})

\* C5: when delete_vessels has returned, it has sent ceil(n / 100) calls for
\* a set of n identifiers (none for the empty set), no call carries more than
\* 100 identifiers or none, and every identifier of the set is in exactly
\* one call.
C5_BatchedDeletion ==
    (pc = "after_delete" \/ outcome = "complete") =>
        LET n == Cardinality(vessels_to_delete)
        IN  /\ Len(calls) = (n + batch_size - 1) \div batch_size
            /\ n = 0 => calls = << >>
            /\ \A k \in 1 .. Len(calls) :
                  /\ Len(calls[k].batch) >= 1
                  /\ Len(calls[k].batch) <= batch_size
                  /\ \A j \in 1 .. Len(calls[k].batch) :
                        calls[k].batch[j] \in vessels_to_delete
            /\ \A m \in vessels_to_delete : Occurrences(m) = 1

\* a set of more than 200 identifiers went out in 3 calls, the last one short
C5_Witness ==
    /\ pc = "after_delete"
    /\ Len(calls) = 3
    /\ Len(calls[1].batch) = batch_size
    /\ Len(calls[3].batch) < batch_size

\* C6: a failed call is the last call that was sent, and with it the run
\* has ended on the raised failure; a run that completed had no failed call.
C6_FailedDeleteSurfaced ==
    /\ \A k \in 1 .. Len(calls) :
          ~calls[k].ok =>
              /\ k = Len(calls)
              /\ pc = "exit"
              /\ outcome = "raised_delete"
    /\ (pc = "after_delete" \/ outcome = "complete") =>
          \A k \in 1 .. Len(calls) : calls[k].ok

\* the second of three batches failed and the third was never sent
C6_Witness ==
    /\ outcome = "raised_delete"
    /\ Len(calls) = 2
    /\ calls[1].ok
    /\ ~calls[2].ok
    /\ Len(mmsi_list) > 2 * batch_size

---------------------------------------------------------------------------
(* Properties of get_vessel_country (specification SpecClassify) *)

StrictlyInside(k) ==
    /\ boundaries[k].type \in {"Polygon", "MultiPolygon"}
    /\ boundaries[k].geometry.x1 < point.longitude
    /\ point.longitude < boundaries[k].geometry.x2
    /\ boundaries[k].geometry.y1 < point.latitude
    /\ point.latitude < boundaries[k].geometry.y2

EarlierMatches(k) ==
    {j \in 1 .. (k - 1) :
        BoundaryMatches(boundaries[j], point.longitude, point.latitude)}

\* C8 as stated: the result is the label of every Area boundary that has the
\* point strictly inside, whatever the order of the store.
C8_AreaLabelAnyOrder ==
    pc = "classified" =>
        \A k \in 1 .. Len(boundaries) :
            StrictlyInside(k) => country = boundaries[k].country

\* C8 amended: for a point strictly inside an Area boundary, the result is
\* that boundary's label when no earlier boundary of the store matches the
\* point, and the label of the first earlier boundary that matches otherwise.
C8_AreaLabelFirstMatch ==
    pc = "classified" =>
        \A k \in 1 .. Len(boundaries) :
            StrictlyInside(k) =>
                IF EarlierMatches(k) = {}
                THEN country = boundaries[k].country
                ELSE \E j \in EarlierMatches(k) :
                        /\ \A h \in EarlierMatches(k) : j <= h
                        /\ country = boundaries[j].country

\* a point strictly inside an Area is given the label of a Line boundary
\* that comes earlier in the store
C8_Witness ==
    /\ pc = "classified"
    /\ \E k \in 1 .. Len(boundaries) :
          /\ StrictlyInside(k)
          /\ \E j \in EarlierMatches(k) :
                /\ boundaries[j].type \in {"LineString", "MultiLineString"}
                /\ country = boundaries[j].country
                /\ country # boundaries[k].country

---------------------------------------------------------------------------
(* Properties of the Variant B decision (specification SpecVariantB) *)

HasFlaggedPrefix(m) == m \div 1000000 = 273

VisitedFlaggedWaters(m) ==
    \E r \in positions :
        /\ r.mmsi = m
        /\ get_vessel_country(r.longitude, r.latitude, boundaries) = "RU"

\* C9: once the Variant B decision is made, every vessel whose identifier
\* starts with the flagged prefix, or that has a row classified as the
\* flagged jurisdiction in the full window, is in the Keep set and not in the
\* Delete set.
C9_FlaggedNationalityKept ==
    pc = "decided_b" =>
        \A m \in {r.mmsi : r \in positions} :
            (HasFlaggedPrefix(m) \/ VisitedFlaggedWaters(m)) =>
                (m \in vessels_to_keep /\ m \notin vessels_to_delete)

\* vessel 273450000 is kept with 2 rows that all classify to None
C9_Witness ==
    /\ pc = "decided_b"
    /\ 273450000 \in vessels_to_keep
    /\ Cardinality({r \in positions : r.mmsi = 273450000}) >= 2
    /\ \A r \in positions :
          r.mmsi = 273450000 =>
              get_vessel_country(r.longitude, r.latitude, boundaries) = None

---------------------------------------------------------------------------
(* Properties of two runs in a row (specification SpecRerun) *)

\* the second run has analysed, with the clock value and the boundaries the
\* first run's analysis had
SecondRunSameData ==
    /\ run = 2
    /\ Analysed
    /\ analysis_threshold = previous.analysis_threshold
    /\ boundaries = previous.boundaries

\* C11: after a run that completed, a second run that reads the same clock
\* value on the same boundaries computes an empty Delete set and the Keep
\* set of the first run, sends no delete call and leaves the store as it
\* found it.
C11_RepeatedRunIdempotent ==
    SecondRunSameData =>
        /\ vessels_to_delete = {}
        /\ vessels_to_keep = previous.keep
        /\ calls = << >>
        /\ store = store0

\* the first run deleted one vessel's rows and kept another vessel; the
\* second run completed at the same clock value
C11_Witness ==
    /\ SecondRunSameData
    /\ outcome = "complete"
    /\ previous.delete # {}
    /\ previous.calls >= 1
    /\ previous.keep # {}

====
